---- MODULE Spec2Model ----
(***************************************************************************)
(* The conversational webhook services of cbse-ai: one request handler per *)
(* deployment variant, the Conversation Store they share per variant, and  *)
(* the in-memory history map of the stateful variants.                     *)
(*                                                                         *)
(* A handler is an async function: it runs without interruption from one   *)
(* await to the next, so every action below is one such segment (arrival   *)
(* up to the first await or response, then one action per resumption).     *)
(***************************************************************************)
EXTENDS Integers, Sequences, FiniteSets, TLC

(* ---------------------------------------------------------------- bounds *)

\* Requests a store or no-history deployment accepts in one run.
MaxCalls == 4
\* Requests a stateful deployment receives in one run.
MaxStatefulCalls == 13
\* Irregular events in one run of a stateful deployment: a generation failure, a
\* request arriving while another is in flight, a request without userId.
MaxIrregular == 2
\* Length of the histories handed to the prompt composer on its own.
MaxComposeHistory == 2
\* Passages the index ranks for a query handed to the retrieval tool on its own.
MaxHits == 6

(* ------------------------------------------------------------- variants  *)

\* Appwrite-style functions: everything, the credential check included, runs per request.
FunctionVariants == {"sst_fn", "sci_fn"}
\* Express apps that fetch history from the store on every request.
ExpressStoreVariants == {"sst_express", "eng_express", "eng_server"}
\* The variants the spec calls stateless: history is re-fetched from the store.
StatelessVariants == FunctionVariants \cup ExpressStoreVariants
\* Express apps that keep no history at all.
NoHistoryVariants == {"server", "minimal"}
\* Every deployment whose handler uses no in-memory history map.
WebhookVariants == StatelessVariants \cup NoHistoryVariants
\* Express apps that keep each user's history in a process-local Map.
StatefulVariants == {"uncapped", "capped_fmt", "capped_lc"}
\* The stateful variants that define MAX_HISTORY_LENGTH and prune.
CappedVariants == {"capped_fmt", "capped_lc"}
\* The variants that compare the request's authToken with AUTH_SECRET.
AuthVariants == StatelessVariants
\* The variants that format the history into the agent's input text.
FormattingVariants == StatelessVariants \cup {"capped_fmt"}
\* The formatting variants whose input text starts with the system message.
SystemLineVariants == {"sst_fn", "sci_fn", "sst_express", "eng_express"}

(* --------------------------------------------------------------- inputs  *)

\* A field the JSON body does not carry (JavaScript undefined).
Undefined == "<undefined>"
Sessions == {"s1", "s2"}
Messages == {"hi"}
Replies == {"hello"}
AUTH_SECRET == "secret"
MessageInputs == {Undefined, ""} \cup Messages
SessionInputs == {Undefined} \cup Sessions
TokenInputs == {Undefined, "wrong", AUTH_SECRET}
\* userId of a stateful request; absent, it defaults to "default".
UserInputs == {Undefined, "u1"}
Users == {"default", "u1"}
Slots == {1, 2}

\* JavaScript truthiness of a string-or-undefined value: !x is ~Truthy(x).
Truthy(x) == x # Undefined /\ x # ""

\* .limit(5) of the history query.
HistoryLimit == 5
\* The cap of a user's in-memory history.
MAX_HISTORY_LENGTH == 20
\* history.slice(-10) of the stateful success response.
ResponseHistoryLength == 10
\* similaritySearch(query, 5): passages the retrieval tool asks for.
RetrievalLimit == 5

VARIABLES
    variant,      \* the deployment this run is about
    envOk,        \* every credential the variant checks for is set
    alive,        \* the process is up and serving
    store,        \* the variant's messages table, in insertion (created_at) order
    chatHistory,  \* the in-memory Map: user id -> list of {role, content}
    req,          \* slot -> the request whose handler is suspended in it
    ended,        \* the request whose handler ended in the latest step, if one did
    ncalls,       \* requests accepted so far (those that reached a downstream call)
    irregular,    \* irregular events of a stateful run so far (see MaxIrregular)
    okCount,      \* ghost: session -> number of its calls answered 200
    npushed,      \* ghost: user id -> number of entries ever pushed to its history
    other,        \* what the latest step was when not a webhook step: health check, timer tick
    tool          \* the retrieval tool applied to one query: the index's ranking, its output

vars ==
    <<variant, envOk, alive, store, chatHistory, req, ended, ncalls, irregular, okCount,
      npushed, other, tool>>

\* The deployment and its process.
process == <<variant, envOk, alive>>
\* The Conversation Store and its ghost.
database == <<store, okCount>>
\* The in-memory history and its ghosts.
memory == <<chatHistory, npushed, irregular>>

(* ------------------------------------------------------------- requests  *)

\* A free slot. A request: its body's fields (sessionId holds the userId of a stateful
\* request), where its handler is suspended (pc), the history it fetched, the input
\* text it composed, the reply it got, the message of the error thrown in its handler,
\* the responses it sent, and (a ghost) the downstream calls it issued, in order.
IdleReq ==
    [pc |-> "idle", message |-> Undefined, sessionId |-> Undefined,
     authToken |-> Undefined, history |-> <<>>, prompt |-> Undefined,
     reply |-> Undefined, thrown |-> Undefined, resp |-> <<>>, calls |-> <<>>]

\* The latest step was a step of a webhook handler.
NoEvent == [kind |-> "none", resp |-> <<>>]

\* The retrieval tool not in use.
IdleTool == [pc |-> "idle", hits |-> <<>>, output |-> Undefined]

\* One row of the messages table (created_at is its position in the table).
Row(s, role, content) == [session_id |-> s, role |-> role, content |-> content]

RECURSIVE WhereSession(_, _)
\* .eq("session_id", s): the rows of one session, in table order.
WhereSession(rows, s) ==
    IF rows = <<>> THEN <<>>
    ELSE IF Head(rows).session_id = s
         THEN <<Head(rows)>> \o WhereSession(Tail(rows), s)
         ELSE WhereSession(Tail(rows), s)

\* Mutant of SessionRows: the query has no session filter, it answers with the rows
\* of every session.
SessionRows_AnySession(s) == store

SessionRows(s) == WhereSession(store, s)

\* Array.prototype.reverse.
Reverse(q) == [i \in 1..Len(q) |-> q[Len(q) + 1 - i]]

\* The first n elements of q (all of it when it is shorter).
Take(q, n) == SubSeq(q, 1, IF Len(q) < n THEN Len(q) ELSE n)

\* .select("role, content").
Project(rows) == [i \in 1..Len(rows) |-> [role |-> rows[i].role, content |-> rows[i].content]]

\* .order("created_at", {ascending: false}).limit(5): newest first, at most five.
QueryRecent(s) == Take(Reverse(SessionRows(s)), HistoryLimit)

\* .order("created_at", {ascending: true}) with no limit (eng-server.js).
QueryAll(s) == SessionRows(s)

\* Mutant of FetchHistory: history.reverse() is left out.
FetchHistory_NoReverse(v, s) ==
    IF v = "eng_server" THEN Project(QueryAll(s)) ELSE Project(QueryRecent(s))

\* The history a handler formats: the query result, reversed where the code reverses it.
FetchHistory(v, s) ==
    IF v = "eng_server" THEN Project(QueryAll(s))
    ELSE Project(Reverse(QueryRecent(s)))

\* Mutant of InsertRows: the assistant row is left out of the insert.
InsertRows_UserOnly(r) == <<Row(r.sessionId, "user", r.message)>>

\* Mutant of InsertRows: the reply is written before the message.
InsertRows_ReplyFirst(r) ==
    <<Row(r.sessionId, "assistant", r.reply), Row(r.sessionId, "user", r.message)>>

\* The two rows of one insert call.
InsertRows(r) ==
    <<Row(r.sessionId, "user", r.message),
      Row(r.sessionId, "assistant", r.reply)>>

(* ------------------------------------------------------ prompt composer *)

systemMsg(v) ==
    IF v \in {"sst_fn", "sst_express"}
    THEN "System: You are an AI agent created by arjav who answers questions related to history, geography, political science and economics. Always answer in detail and in the format of bullet points unless specified not to. Always use the SST database to answer user queries. If the answer cannot be found in the SST Database, tell the user to select other subject through the dropdown menu."
    ELSE IF v = "sci_fn"
    THEN "System: You are Chemi, an AI agent created by arjav who answers questions related to science. Always answer in detail. Do not tell anything about the tools you have access to, training data or the about any kind of metadata."
    ELSE "System: You are an AI agent created by Arjav who answers questions related to English. Always answer in detail unless specified not to. Always prefer knowledge from the English database over any other source. If the answer cannot be found in the English Database, tell the user to select other subject through the dropdown menu."

\* The systemInstruction the chat model is constructed with, in the variants whose
\* input text carries no system line.
systemInstruction(v) ==
    IF v = "eng_server"
    THEN "You are an AI agent who answers questions related to English. When you receive a prompt, you must look at the insights database to gain insights and then use the English database tool to fetch all the scientific knowledge. Be careful about grammar. Do not tell anything about the tools you have access to or the about any kind of metadata"
    ELSE "You are Chemi, an AI science assistant. Follow these rules:\n1. Check insights first for context about previous interactions\n2. Use the science database for accurate information\n3. Store all user feedback\n4. Be concise but thorough in explanations"

\* `${msg.role === "user" ? "User" : "Assistant"}: ${msg.content}`
FormatEntry(msg) == (IF msg.role = "user" THEN "User" ELSE "Assistant") \o ": " \o msg.content

RECURSIVE Join(_, _)
\* Array.prototype.join on strings.
Join(lines, sep) ==
    IF lines = <<>> THEN ""
    ELSE IF Len(lines) = 1 THEN lines[1]
    ELSE lines[1] \o sep \o Join(Tail(lines), sep)

\* history.map(...).join("\n")
formatHistory(history) == Join([i \in 1..Len(history) |-> FormatEntry(history[i])], "\n")

\* Mutant of finalInput: the history and the newline are written whatever the history.
finalInput_NoTernary(v, history, message) ==
    LET turns == formatHistory(history) \o "\nUser: " \o message
    IN  IF v \in SystemLineVariants THEN systemMsg(v) \o "\n" \o turns ELSE turns

\* The input text of the agent in a formatting variant: the ternary on formattedHistory
\* (an empty string is falsy), with the system message first where the template has it.
finalInput(v, history, message) ==
    LET formattedHistory == formatHistory(history)
        turns == IF formattedHistory # ""
                 THEN formattedHistory \o "\nUser: " \o message
                 ELSE "User: " \o message
    IN  IF v \in SystemLineVariants THEN systemMsg(v) \o "\n" \o turns ELSE turns

\* executor.invoke({input: ...}): the composed text, or the bare message where the
\* history is passed beside it (or not at all).
AgentInput(v, history, message) ==
    IF v \in FormattingVariants THEN finalInput(v, history, message) ELSE message

(* ------------------------------------------------------------ responses  *)

Now == "Date.now()"

ErrorBody(msg) == [error |-> msg]

\* The 500 body of a caught exception.
CaughtBody(v, msg) ==
    IF v = "server" THEN [error |-> "Internal server error", details |-> msg]
    ELSE ErrorBody(msg)

\* The body of the success response.
SuccessBody(v, r, out) ==
    IF v = "server" THEN [reply |-> out, sources |-> "intermediateSteps"]
    ELSE IF v = "minimal" THEN [reply |-> out]
    ELSE [success |-> TRUE, response |-> out, sessionId |-> r.sessionId, timestamp |-> Now]

UnauthorizedText(v) ==
    IF v \in {"sst_fn", "sst_express", "eng_express"}
    THEN "Back off, you ain't authenticated"
    ELSE "Back off motherfucker, you ain't authenticated"

\* res.json(body, status) / res.status(status).json(body): the handler returns after it.
Respond(r, status, body) ==
    [r EXCEPT !.pc = "done", !.resp = Append(@, [status |-> status, body |-> body])]

\* The message of the error a failed downstream call raises.
DownstreamError(name) == name \o " failed"

\* The catch block of the handler; "minimal" has none, its promise rejects unhandled.
Catch(v, r, msg) ==
    IF v = "minimal" THEN [r EXCEPT !.pc = "unhandled", !.thrown = msg]
    ELSE Respond([r EXCEPT !.thrown = msg], 500, CaughtBody(v, msg))

\* Suspend at an await of the downstream call `name`.
Await(r, name) == [r EXCEPT !.pc = name, !.calls = Append(@, name)]

(* ------------------------------------------------- handler, synchronous  *)

\* The comparison of the request's token with the secret:
\* "ok", "reject", or "throw" where the handler names a variable it never declared.
AuthCheck(v, token) ==
    IF v = "eng_server" THEN "throw"
    ELSE IF token # AUTH_SECRET THEN "reject"
    ELSE "ok"

\* The first downstream call the handler awaits once the request is accepted.
FirstAwait(v) ==
    IF v \in NoHistoryVariants THEN "generate"
    ELSE IF v = "eng_server" THEN "fetch"
    ELSE "setup"

\* Mutant of Invalid: the sessionId is not looked at.
Invalid_MessageOnly(v, m, s) == v # "minimal" /\ ~Truthy(m)

\* Validation of the body: TRUE when the handler answers 400.
Invalid(v, m, s) ==
    IF v = "minimal" THEN FALSE
    ELSE IF v = "server" THEN ~Truthy(m)
    ELSE ~Truthy(m) \/ ~Truthy(s)

ValidationText(v) ==
    IF v = "server" THEN "Message is required" ELSE "Missing message or sessionId"

\* The request with `history` as its context and the agent's input composed from it.
Compose(v, r, history) ==
    [r EXCEPT !.history = history, !.prompt = AgentInput(v, history, r.message)]

\* Mutant of Enter: the token is compared before the body is validated.
Enter_AuthFirst(v, r) ==
    IF v \in FunctionVariants /\ ~envOk
    THEN Catch(v, r, "Missing required environment variables")
    ELSE IF v \in AuthVariants /\ AuthCheck(v, r.authToken) = "reject"
    THEN Respond(r, 401, ErrorBody(UnauthorizedText(v)))
    ELSE IF Invalid(v, r.message, r.sessionId)
    THEN Respond(r, 400, ErrorBody(ValidationText(v)))
    ELSE IF v \in AuthVariants /\ AuthCheck(v, r.authToken) = "throw"
    THEN Catch(v, r, "authToken is not defined")
    ELSE IF v \in NoHistoryVariants
    THEN Await(Compose(v, r, <<>>), FirstAwait(v))
    ELSE Await(r, FirstAwait(v))

\* The handler from its entry to its first await or response.
Enter(v, r) ==
    IF v \in FunctionVariants /\ ~envOk
    THEN Catch(v, r, "Missing required environment variables")
    ELSE IF Invalid(v, r.message, r.sessionId)
    THEN Respond(r, 400, ErrorBody(ValidationText(v)))
    ELSE IF v \in AuthVariants /\ AuthCheck(v, r.authToken) = "reject"
    THEN Respond(r, 401, ErrorBody(UnauthorizedText(v)))
    ELSE IF v \in AuthVariants /\ AuthCheck(v, r.authToken) = "throw"
    THEN Catch(v, r, "authToken is not defined")
    ELSE IF v \in NoHistoryVariants
    THEN Await(Compose(v, r, <<>>), FirstAwait(v))
    ELSE Await(r, FirstAwait(v))

\* The request as the handler receives it.
NewReq(m, s, t) == [IdleReq EXCEPT !.message = m, !.sessionId = s, !.authToken = t]

Finished(r) == r.pc \in {"done", "unhandled"}

\* One segment of the handler in slot k ran and left the request as r: still suspended
\* in its slot, or ended (answered, or rejected unhandled) and the slot free again.
Step(k, r) ==
    /\ req' = [req EXCEPT ![k] = IF Finished(r) THEN IdleReq ELSE r]
    /\ ended' = IF Finished(r) THEN r ELSE IdleReq
    /\ other' = NoEvent
    /\ UNCHANGED tool

\* The lowest free slot (slots are interchangeable).
FreeSlot(k) == req[k].pc = "idle" /\ \A j \in Slots : j < k => req[j].pc # "idle"

\* A request arrives and the handler runs to its first await or to its response.
Receive(k, m, s, t) ==
    /\ variant \in WebhookVariants
    /\ alive
    /\ ncalls < MaxCalls
    /\ FreeSlot(k)
    /\ Step(k, Enter(variant, NewReq(m, s, t)))
    /\ ncalls' = IF Finished(Enter(variant, NewReq(m, s, t))) THEN ncalls ELSE ncalls + 1
    /\ UNCHANGED <<process, database, memory>>

(* --------------------------------------------------- handler, resumptions *)

\* PineconeStore.fromExistingIndex resolves; the handler builds tools and model and
\* awaits the agent executor. eng_express reads systemMsg before its declaration.
AfterSetup(v, r) ==
    IF v = "eng_express"
    THEN Catch(v, r, "Cannot access 'systemMsg' before initialization")
    ELSE Await(r, "agent")

SetupReturns(k) ==
    /\ alive
    /\ req[k].pc = "setup"
    /\ Step(k, AfterSetup(variant, req[k]))
    /\ UNCHANGED <<process, database, ncalls, memory>>

\* initializeAgentExecutorWithOptions resolves; the handler issues the history query.
AgentReturns(k) ==
    /\ alive
    /\ req[k].pc = "agent"
    /\ Step(k, Await(req[k], "fetch"))
    /\ UNCHANGED <<process, database, ncalls, memory>>

\* The history query answers with data; the handler composes the prompt from it and
\* invokes the agent.
FetchReturns(k) ==
    /\ alive
    /\ req[k].pc = "fetch"
    /\ Step(k, Await(Compose(variant, req[k], FetchHistory(variant, req[k].sessionId)),
                     "generate"))
    /\ UNCHANGED <<process, database, ncalls, memory>>

\* After a reply: the store variants insert the turn, the others answer at once.
AfterGenerate(v, r) ==
    IF v \in NoHistoryVariants THEN Respond(r, 200, SuccessBody(v, r, r.reply))
    ELSE Await(r, "insert")

\* executor.invoke resolves with a reply.
GenerateReturns(k, out) ==
    /\ alive
    /\ variant \in WebhookVariants
    /\ req[k].pc = "generate"
    /\ Step(k, AfterGenerate(variant, [req[k] EXCEPT !.reply = out]))
    /\ UNCHANGED <<process, database, ncalls, memory>>

\* Mutant of InsertCommits: the history is held in one place for the session, and a
\* committed insert refreshes it under the requests of that session still generating.
InsertCommits_RefreshesWaiting(k) ==
    /\ req[k].pc = "insert"
    /\ store' = store \o InsertRows(req[k])
    /\ req' = [j \in Slots |->
                IF j = k THEN [req[k] EXCEPT !.pc = "inserted"]
                ELSE IF req[j].pc = "generate" /\ req[j].sessionId = req[k].sessionId
                THEN [req[j] EXCEPT
                         !.history =
                             Project(Reverse(Take(Reverse(WhereSession(store',
                                                                       req[j].sessionId)),
                                                  HistoryLimit)))]
                ELSE req[j]]
    /\ ended' = IdleReq
    /\ other' = NoEvent
    /\ UNCHANGED <<process, ncalls, okCount, memory, tool>>

\* The store commits the insert of the two rows (the handler is still suspended).
InsertCommits(k) ==
    /\ req[k].pc = "insert"
    /\ store' = store \o InsertRows(req[k])
    /\ Step(k, [req[k] EXCEPT !.pc = "inserted"])
    /\ UNCHANGED <<process, ncalls, okCount, memory>>

\* The insert call returns without error; the handler sends the success response.
InsertReturns(k) ==
    /\ alive
    /\ req[k].pc = "inserted"
    /\ Step(k, Respond(req[k], 200, SuccessBody(variant, req[k], req[k].reply)))
    /\ okCount' = [okCount EXCEPT ![req[k].sessionId] = @ + 1]
    /\ UNCHANGED <<process, store, ncalls, memory>>

\* Mutant of DownstreamFails: the error the insert returns is not looked at, the
\* handler goes on to its success response.
DownstreamFails_InsertErrorIgnored(k) ==
    /\ alive
    /\ variant \in WebhookVariants \ {"minimal"}
    /\ req[k].pc \in {"setup", "agent", "fetch", "generate", "insert"}
    /\ Step(k, IF req[k].pc = "insert"
               THEN Respond([req[k] EXCEPT !.thrown = DownstreamError("insert")], 200,
                            SuccessBody(variant, req[k], req[k].reply))
               ELSE Catch(variant, req[k], DownstreamError(req[k].pc)))
    /\ UNCHANGED <<process, database, ncalls, memory>>

\* Mutant of DownstreamFails: a failed call is issued once more before giving up.
DownstreamFails_RetriesOnce(k) ==
    /\ alive
    /\ variant \in WebhookVariants \ {"minimal"}
    /\ req[k].pc \in {"setup", "agent", "fetch", "generate", "insert"}
    /\ Step(k, IF req[k].thrown = Undefined
               THEN Await([req[k] EXCEPT !.thrown = "retry"], req[k].pc)
               ELSE Catch(variant, req[k], DownstreamError(req[k].pc)))
    /\ UNCHANGED <<process, database, ncalls, memory>>

\* Mutant of DownstreamFails: the message of a request whose generation failed is
\* stored all the same.
DownstreamFails_KeepsMessage(k) ==
    /\ alive
    /\ variant \in WebhookVariants \ {"minimal"}
    /\ req[k].pc \in {"setup", "agent", "fetch", "generate", "insert"}
    /\ Step(k, Catch(variant, req[k], DownstreamError(req[k].pc)))
    /\ store' = IF req[k].pc = "generate" /\ variant \in StatelessVariants
                THEN Append(store, Row(req[k].sessionId, "user", req[k].message))
                ELSE store
    /\ UNCHANGED <<process, okCount, ncalls, memory>>

\* A downstream call fails: it rejects, or returns an error the handler rethrows.
\* A failed insert writes nothing. The catch block answers 500.
DownstreamFails(k) ==
    /\ alive
    /\ variant \in WebhookVariants \ {"minimal"}
    /\ req[k].pc \in {"setup", "agent", "fetch", "generate", "insert"}
    /\ Step(k, Catch(variant, req[k], DownstreamError(req[k].pc)))
    /\ UNCHANGED <<process, database, ncalls, memory>>

\* "minimal" has no try/catch: a rejected executor.invoke is an unhandled rejection.
\* No response is sent; the process goes on or is terminated, as the runtime's
\* unhandled-rejection policy has it.
UnhandledRejection(k, survives) ==
    /\ alive
    /\ variant = "minimal"
    /\ req[k].pc = "generate"
    /\ Step(k, Catch(variant, req[k], DownstreamError(req[k].pc)))
    /\ alive' = survives
    /\ UNCHANGED <<variant, envOk, database, ncalls, memory>>

(* ------------------------------------------------------ stateful handler *)

\* One entry of a user's history. seq is a ghost: the entry's number among the
\* entries ever pushed to that user's list.
Entry(role, content, n) == [role |-> role, content |-> content, seq |-> n]

\* const { userId = "default" } = req.body
UserIdOf(u) == IF u = Undefined THEN "default" ELSE u

\* getChatHistory: the Map after the lookup, with an empty list set for a new user id.
getChatHistory(userId) ==
    IF userId \in DOMAIN chatHistory THEN chatHistory ELSE chatHistory @@ (userId :> <<>>)

\* Mutant of pruneOldMessages: the comparison is off by two, one turn too many is kept.
pruneOldMessages_KeepsOneTurnMore(history) ==
    IF Len(history) > MAX_HISTORY_LENGTH + 2
    THEN SubSeq(history, Len(history) - MAX_HISTORY_LENGTH + 1, Len(history))
    ELSE history

\* Mutant of pruneOldMessages: the list is cut at its end, the oldest entries stay.
pruneOldMessages_KeepsOldest(history) ==
    IF Len(history) > MAX_HISTORY_LENGTH
    THEN SubSeq(history, 1, MAX_HISTORY_LENGTH)
    ELSE history

\* history.splice(0, history.length - MAX_HISTORY_LENGTH) when the list is over the cap.
pruneOldMessages(history) ==
    IF Len(history) > MAX_HISTORY_LENGTH
    THEN SubSeq(history, Len(history) - MAX_HISTORY_LENGTH + 1, Len(history))
    ELSE history

\* Mutant of PushAndPrune: an entry pushed right after one of the same role takes its
\* place (a lost update between two overlapping requests).
PushAndPrune_LostUpdate(v, history, entry) ==
    IF history # <<>> /\ history[Len(history)].role = entry.role
    THEN [history EXCEPT ![Len(history)] = entry]
    ELSE IF v \in CappedVariants THEN pruneOldMessages(Append(history, entry))
    ELSE Append(history, entry)

\* The list after history.push(entry) and, where the variant has it, pruneOldMessages.
PushAndPrune(v, history, entry) ==
    IF v \in CappedVariants THEN pruneOldMessages(Append(history, entry))
    ELSE Append(history, entry)

\* The {role, content} view of a list (the entries without their ghost).
Plain(history) ==
    [i \in 1..Len(history) |-> [role |-> history[i].role, content |-> history[i].content]]

\* array.slice(-n): the last n elements.
LastN(q, n) == IF Len(q) <= n THEN q ELSE SubSeq(q, Len(q) - n + 1, Len(q))

\* The history the agent is given, from the user's list h after the push of the new
\* message: all but the new message, formatted into the input (capped_fmt); the whole
\* list, as chat_history (uncapped, capped_lc).
ContextOf(v, h) ==
    IF v = "capped_fmt" THEN Plain(SubSeq(h, 1, Len(h) - 1)) ELSE Plain(h)

\* history of the success body: the last ten entries, or the whole list.
ResponseHistory(v, h) ==
    IF v \in CappedVariants THEN Plain(LastN(h, ResponseHistoryLength)) ELSE Plain(h)

\* What the arrival of a request with userId u adds to the irregular events.
Irregularity(u) ==
    (IF \E j \in Slots : req[j].pc # "idle" THEN 1 ELSE 0) + (IF u = Undefined THEN 1 ELSE 0)

\* A request arrives: the handler looks the user's list up, pushes the message,
\* prunes, composes the agent's input and awaits executor.invoke.
ReceiveStateful(k, m, u) ==
    /\ variant \in StatefulVariants
    /\ alive
    /\ ncalls < MaxStatefulCalls
    /\ FreeSlot(k)
    /\ irregular + Irregularity(u) <= MaxIrregular
    /\ irregular' = irregular + Irregularity(u)
    /\ LET userId == UserIdOf(u)
           h == PushAndPrune(variant, getChatHistory(userId)[userId],
                             Entry("user", m, npushed[userId] + 1))
           r == [IdleReq EXCEPT !.message = m, !.sessionId = userId]
       IN  /\ chatHistory' = [getChatHistory(userId) EXCEPT ![userId] = h]
           /\ npushed' = [npushed EXCEPT ![userId] = @ + 1]
           /\ Step(k, Await(Compose(variant, r, ContextOf(variant, h)), "generate"))
    /\ ncalls' = ncalls + 1
    /\ UNCHANGED <<process, database>>

\* executor.invoke resolves: the handler pushes the reply to the user's list, prunes,
\* and answers with the reply and the (recent) history.
ReplyStateful(k, out) ==
    /\ variant \in StatefulVariants
    /\ alive
    /\ req[k].pc = "generate"
    /\ LET userId == req[k].sessionId
           h == PushAndPrune(variant, chatHistory[userId],
                             Entry("assistant", out, npushed[userId] + 1))
       IN  /\ chatHistory' = [chatHistory EXCEPT ![userId] = h]
           /\ npushed' = [npushed EXCEPT ![userId] = @ + 1]
           /\ Step(k, Respond([req[k] EXCEPT !.reply = out], 200,
                              [reply |-> out, history |-> ResponseHistory(variant, h)]))
    /\ UNCHANGED <<process, database, ncalls, irregular>>

\* Mutant of FailStateful: the catch block takes the request's message back off the
\* end of the user's list.
FailStateful_RollsBack(k) ==
    /\ variant \in StatefulVariants
    /\ alive
    /\ irregular < MaxIrregular
    /\ req[k].pc = "generate"
    /\ Step(k, Catch(variant, req[k], DownstreamError(req[k].pc)))
    /\ irregular' = irregular + 1
    /\ LET h == chatHistory[req[k].sessionId]
       IN  chatHistory' = [chatHistory EXCEPT
                              ![req[k].sessionId] = SubSeq(h, 1, Len(h) - 1)]
    /\ UNCHANGED <<process, database, ncalls, npushed>>

\* executor.invoke rejects: the catch block answers 500; the list keeps the message.
FailStateful(k) ==
    /\ variant \in StatefulVariants
    /\ alive
    /\ irregular < MaxIrregular
    /\ req[k].pc = "generate"
    /\ Step(k, Catch(variant, req[k], DownstreamError(req[k].pc)))
    /\ irregular' = irregular + 1
    /\ UNCHANGED <<process, database, ncalls, chatHistory, npushed>>

(* ------------------------------------------------- composer, on its own  *)

\* The histories the composer is applied to: any roles, any order.
RECURSIVE HistoriesUpTo(_)
HistoriesUpTo(n) ==
    IF n = 0 THEN {<<>>}
    ELSE LET shorter == HistoriesUpTo(n - 1)
         IN  shorter \cup
             {Append(h, [role |-> role, content |-> c]) :
                 h \in {x \in shorter : Len(x) = n - 1},
                 role \in {"user", "assistant", "system"}, c \in {"hi", "hello"}}

\* The composer of the variant runs on the request's history and message.
ComposeOnly(k) ==
    /\ req[k].pc = "compose"
    /\ req' = [req EXCEPT ![k] =
                 [Compose(variant, req[k], req[k].history) EXCEPT !.pc = "composed"]]
    /\ UNCHANGED <<process, database, memory, ended, ncalls, other, tool>>

(* --------------------------------------------------- health check, timer *)

\* The servers that register GET /health.
HealthVariants == {"eng_server", "server"} \cup StatefulVariants

\* Mutant of Health: the route answers only while no webhook request is in flight.
Health_OnlyWhenIdle ==
    /\ alive
    /\ variant \in HealthVariants
    /\ \A k \in Slots : req[k].pc = "idle"
    /\ other' = [kind |-> "health",
                 resp |-> <<[status |-> 200, body |-> [status |-> "healthy"]]>>]
    /\ ended' = IdleReq
    /\ UNCHANGED <<process, database, memory, req, ncalls, tool>>

\* GET /health: the route answers at once and touches nothing.
Health ==
    /\ alive
    /\ variant \in HealthVariants
    /\ other' = [kind |-> "health",
                 resp |-> <<[status |-> 200, body |-> [status |-> "healthy"]]>>]
    /\ ended' = IdleReq
    /\ UNCHANGED <<process, database, memory, req, ncalls, tool>>

\* Mutant of cleanup: the lists of the users without a request in flight are deleted.
cleanup_DeletesIdleUsers(map) ==
    [u \in {x \in DOMAIN map : \E k \in Slots : req[k].pc # "idle" /\ req[k].sessionId = x}
        |-> map[u]]

\* The body of the hourly timer callback: two constants are computed, the Map is
\* not touched.
cleanup(map) == map

\* The hourly timer of the last stateful variant fires.
CleanupTick ==
    /\ alive
    /\ variant = "capped_lc"
    /\ chatHistory' = cleanup(chatHistory)
    /\ other' = [kind |-> "tick", resp |-> <<>>]
    /\ ended' = IdleReq
    /\ UNCHANGED <<process, database, npushed, irregular, req, ncalls, tool>>

(* --------------------------------------------------------- retrieval tool *)

\* The separator the tool joins the passages with.
ToolSeparator(v) == IF v = "minimal" THEN "\n" ELSE "\n\n---\n"

\* vectorStore.similaritySearch(query, k): the k best-ranked passages, best first.
similaritySearch(hits, k) == Take(hits, k)

\* Mutant of ToolOutput: every ranked passage is returned, not the first five.
ToolOutput_NoLimit(v, hits) ==
    Join([i \in 1..Len(hits) |-> hits[i].pageContent], ToolSeparator(v))

\* func(query): results.map((r) => r.pageContent).join(separator)
ToolOutput(v, hits) ==
    LET results == similaritySearch(hits, RetrievalLimit)
    IN  Join([i \in 1..Len(results) |-> results[i].pageContent], ToolSeparator(v))

\* The rankings the index may hold for a query: up to n passages.
RECURSIVE RankingsUpTo(_)
RankingsUpTo(n) ==
    IF n = 0 THEN {<<>>}
    ELSE LET shorter == RankingsUpTo(n - 1)
         IN  shorter \cup
             {Append(h, [pageContent |-> c]) :
                 h \in {x \in shorter : Len(x) = n - 1}, c \in {"p", "q"}}

\* The agent calls the tool; the tool returns its text.
SearchTool ==
    /\ tool.pc = "called"
    /\ tool' = [tool EXCEPT !.pc = "returned", !.output = ToolOutput(variant, tool.hits)]
    /\ UNCHANGED <<process, database, memory, req, ended, ncalls, other>>

(* ------------------------------------------------------- specification   *)

\* Mutant of StartsUp: the check at module load is missing.
StartsUp_Unchecked(v, ok) == TRUE

\* An Express variant checks its credentials at module load and dies when one is
\* missing ("minimal" checks nothing); a function variant is always invocable.
StartsUp(v, ok) == ok \/ v \in FunctionVariants \/ v = "minimal"

\* The state once a deployment of one of the variants vs has loaded.
InitOf(vs) ==
    /\ variant \in vs
    /\ envOk \in BOOLEAN
    /\ alive = StartsUp(variant, envOk)
    /\ store = <<>>
    /\ chatHistory = <<>>
    /\ req = [k \in Slots |-> IdleReq]
    /\ ended = IdleReq
    /\ ncalls = 0
    /\ irregular = 0
    /\ okCount = [s \in Sessions |-> 0]
    /\ npushed = [u \in Users |-> 0]
    /\ other = NoEvent
    /\ tool = IdleTool

InitWebhook == InitOf(WebhookVariants)

InitStateful == InitOf(StatefulVariants)

Init == InitOf(WebhookVariants \cup StatefulVariants)

\* A formatting variant about to compose the input of one request.
InitCompose ==
    /\ variant \in FormattingVariants
    /\ envOk = TRUE
    /\ alive = TRUE
    /\ store = <<>>
    /\ chatHistory = <<>>
    /\ \E h \in HistoriesUpTo(MaxComposeHistory), m \in {"bye", "hi"} :
          req = [k \in Slots |->
                   IF k = 1 THEN [IdleReq EXCEPT !.pc = "compose", !.message = m, !.history = h]
                   ELSE IdleReq]
    /\ ended = IdleReq
    /\ ncalls = 0
    /\ irregular = 0
    /\ okCount = [s \in Sessions |-> 0]
    /\ npushed = [u \in Users |-> 0]
    /\ other = NoEvent
    /\ tool = IdleTool

\* A variant whose agent is about to call the retrieval tool with one query.
InitTool ==
    /\ variant \in WebhookVariants \cup StatefulVariants
    /\ envOk = TRUE
    /\ alive = TRUE
    /\ store = <<>>
    /\ chatHistory = <<>>
    /\ req = [k \in Slots |-> IdleReq]
    /\ ended = IdleReq
    /\ ncalls = 0
    /\ irregular = 0
    /\ okCount = [s \in Sessions |-> 0]
    /\ npushed = [u \in Users |-> 0]
    /\ other = NoEvent
    /\ \E hits \in RankingsUpTo(MaxHits) :
          tool = [pc |-> "called", hits |-> hits, output |-> Undefined]

NextWebhook ==
    \E k \in Slots :
        \/ \E m \in MessageInputs, s \in SessionInputs, t \in TokenInputs : Receive(k, m, s, t)
        \/ SetupReturns(k)
        \/ AgentReturns(k)
        \/ FetchReturns(k)
        \/ \E out \in Replies : GenerateReturns(k, out)
        \/ InsertCommits(k)
        \/ InsertReturns(k)
        \/ DownstreamFails(k)
        \/ \E survives \in BOOLEAN : UnhandledRejection(k, survives)
        \/ Health

NextStateful ==
    \E k \in Slots :
        \/ \E m \in Messages, u \in UserInputs : ReceiveStateful(k, m, u)
        \/ \E out \in Replies : ReplyStateful(k, out)
        \/ FailStateful(k)
        \/ Health
        \/ CleanupTick

NextCompose == \E k \in Slots : ComposeOnly(k)

NextTool == SearchTool

Next == NextWebhook \/ NextStateful

\* Every deployment.
Spec == Init /\ [][Next]_vars
\* The deployments without an in-memory history.
SpecWebhook == InitWebhook /\ [][NextWebhook]_vars
\* The deployments with an in-memory history.
SpecStateful == InitStateful /\ [][NextStateful]_vars
\* The prompt composer applied to arbitrary histories.
SpecCompose == InitCompose /\ [][NextCompose]_vars
\* The retrieval tool applied to arbitrary rankings.
SpecTool == InitTool /\ [][NextTool]_vars

(* ------------------------------------------------------------ properties  *)

\* The slots whose handler is suspended at an await.
InFlight == {k \in Slots : req[k].pc # "idle"}

\* The handler of `ended` ran and ended in the latest step.
HasEnded == ended.pc # "idle"

\* The calls of session s whose insert has committed and whose 200 is being sent.
Answering(s) == {k \in Slots : req[k].pc = "inserted" /\ req[k].sessionId = s}

\* The rows of session s are whole turns: a user row, then an assistant row.
TurnsOnly(s) ==
    \A i \in 1..Len(SessionRows(s)) :
        /\ SessionRows(s)[i].role = (IF i % 2 = 1 THEN "user" ELSE "assistant")
        /\ SessionRows(s)[i].content \in (IF i % 2 = 1 THEN Messages ELSE Replies)

\* A step that changes the table appends the turn of one request awaiting its insert:
\* its message as a user row, then its reply as an assistant row.
AppendsOneTurn ==
    store' # store =>
        \E k \in Slots :
            /\ req[k].pc = "insert"
            /\ store' = store \o <<Row(req[k].sessionId, "user", req[k].message),
                                    Row(req[k].sessionId, "assistant", req[k].reply)>>

\* C1: after N successful calls for a session the table holds exactly 2N rows of it
\* (2 more for each call whose insert has committed and whose 200 is on its way), they
\* are (user, assistant) turns, and the table only ever grows by one whole turn of the
\* committing call at its end, so turns lie in the order the calls committed; repeated
\* identical requests each add their own turn.
C1_TwoRowsPerSuccessfulCall ==
    /\ [](\A s \in Sessions :
             /\ Len(SessionRows(s)) = 2 * (okCount[s] + Cardinality(Answering(s)))
             /\ TurnsOnly(s))
    /\ [][AppendsOneTurn]_vars

\* C1 witness: two identical successful calls for one session and one for the other,
\* all answered.
C1_Witness ==
    /\ okCount["s1"] = 2 /\ okCount["s2"] = 1
    /\ Len(SessionRows("s1")) = 4 /\ Len(SessionRows("s2")) = 2
    /\ InFlight = {}

\* The request has a non-empty message and sessionId.
WellFormed(r) == Truthy(r.message) /\ Truthy(r.sessionId)

\* C2: in a variant that authenticates, a well-formed request whose authToken is missing
\* or differs from AUTH_SECRET is answered 401 and no downstream call is made for it.
C2_WrongTokenIs401 ==
    /\ (HasEnded /\ variant \in AuthVariants /\ envOk /\ WellFormed(ended)
            /\ ended.authToken # AUTH_SECRET)
        => (/\ Len(ended.resp) = 1
            /\ ended.resp[1].status = 401
            /\ ended.calls = <<>>)
    /\ \A k \in InFlight : variant \in AuthVariants => req[k].authToken = AUTH_SECRET

\* C3: in a stateless variant with its credentials set, a request whose message or
\* sessionId is missing or empty is answered 400 {error: "Missing message or sessionId"};
\* no downstream call is made for it, so no request in flight is such a request.
C3_MissingFieldIs400 ==
    variant \in StatelessVariants /\ envOk =>
        /\ (HasEnded /\ ~WellFormed(ended)) =>
               /\ ended.resp = <<[status |-> 400,
                                  body |-> [error |-> "Missing message or sessionId"]]>>
               /\ ended.calls = <<>>
        /\ \A k \in InFlight : WellFormed(req[k])

\* C3 witness: {message: "", sessionId: "s1"} was answered 400 while the table holds rows.
C3_Witness ==
    /\ variant \in StatelessVariants /\ envOk
    /\ HasEnded /\ ended.message = "" /\ ended.sessionId = "s1"
    /\ Len(ended.resp) = 1 /\ ended.resp[1].status = 400
    /\ store # <<>>

\* The error messages of failed downstream calls.
DownstreamErrors ==
    {DownstreamError(name) : name \in {"setup", "agent", "fetch", "generate", "insert"}}

\* C4: in every stateless variant with its credentials set, a request with non-empty
\* message and sessionId and the matching authToken, none of whose downstream calls
\* failed, is answered 200 with success = true, the generated reply, its sessionId and
\* a timestamp.
C4_ValidRequestIs200 ==
    (HasEnded /\ variant \in StatelessVariants /\ envOk /\ WellFormed(ended)
        /\ ended.authToken = AUTH_SECRET /\ ended.thrown \notin DownstreamErrors)
    => /\ ended.reply \in Replies
       /\ ended.resp = <<[status |-> 200,
                          body |-> [success |-> TRUE, response |-> ended.reply,
                                    sessionId |-> ended.sessionId, timestamp |-> Now]]>>

\* C5: in every variant, a request during which a downstream call failed is answered
\* with a single status-500 response that carries the failure's message; it is never
\* left without a response.
C5_DownstreamFailureIs500 ==
    (HasEnded /\ ended.thrown \in DownstreamErrors)
    => /\ Len(ended.resp) = 1
       /\ ended.resp[1].status = 500
       /\ ended.thrown \in {ended.resp[1].body[f] : f \in DOMAIN ended.resp[1].body}

\* C6: a request whose handler has ended is in exactly one terminal state, success
\* (200), rejected (400/401) or failed (500), and has sent exactly one response; a
\* request still in flight has sent none.
C6_ExactlyOneResponse ==
    /\ HasEnded => /\ ended.pc = "done"
                   /\ Len(ended.resp) = 1
                   /\ ended.resp[1].status \in {200, 400, 401, 500}
    /\ \A k \in InFlight : req[k].resp = <<>>

\* C7 as stated: in every stateful variant, no user's list ever holds more than
\* MAX_HISTORY_LENGTH entries.
C7_EveryStatefulListWithinCap ==
    \A u \in DOMAIN chatHistory : Len(chatHistory[u]) <= MAX_HISTORY_LENGTH

\* C7: in the stateful variants that prune, no user's list ever holds more than
\* MAX_HISTORY_LENGTH entries, whatever the sequence and interleaving of requests and
\* whichever generations fail.
C7_PrunedListWithinCap ==
    variant \in CappedVariants =>
        \A u \in DOMAIN chatHistory : Len(chatHistory[u]) <= MAX_HISTORY_LENGTH

\* C7 witness: a pruning variant whose user has pushed more than the cap, the latest
\* request's generation having failed, and whose list is at the cap.
C7_Witness ==
    /\ variant \in CappedVariants
    /\ HasEnded /\ ended.thrown \in DownstreamErrors
    /\ npushed[ended.sessionId] > MAX_HISTORY_LENGTH
    /\ Len(chatHistory[ended.sessionId]) = MAX_HISTORY_LENGTH

\* The smaller of two numbers.
Min(a, b) == IF a < b THEN a ELSE b

\* C8: in a pruning variant, after M pushes to a user's list, each followed by prune,
\* the list holds exactly the min(M, 20) most recently pushed entries, oldest first:
\* entry i of the list is push number M - min(M, 20) + i.
C8_MostRecentEntriesKept ==
    variant \in CappedVariants =>
        \A u \in DOMAIN chatHistory :
            /\ Len(chatHistory[u]) = Min(npushed[u], MAX_HISTORY_LENGTH)
            /\ \A i \in 1..Len(chatHistory[u]) :
                   chatHistory[u][i].seq = npushed[u] - Len(chatHistory[u]) + i

\* C8 witness: 25 entries pushed to one list, which holds the pushes 6..25.
C8_Witness ==
    /\ variant \in CappedVariants
    /\ \E u \in DOMAIN chatHistory :
          /\ npushed[u] = 25
          /\ Len(chatHistory[u]) = 20
          /\ chatHistory[u][1].seq = 6
          /\ chatHistory[u][20].seq = 25

RECURSIVE RenderedTurns(_)
\* The entries of a history as the claim renders them: "User: <content>" for the role
\* user, "Assistant: <content>" for any other, each followed by a newline.
RenderedTurns(h) ==
    IF h = <<>> THEN ""
    ELSE (IF Head(h).role = "user" THEN "User: " ELSE "Assistant: ")
            \o Head(h).content \o "\n" \o RenderedTurns(Tail(h))

\* The text the claim expects after the system line.
ExpectedTurns(h, m) == RenderedTurns(h) \o "User: " \o m

\* The system instruction of a variant.
SystemOf(v) == IF v \in SystemLineVariants THEN systemMsg(v) ELSE systemInstruction(v)

\* The requests whose input text has been composed.
Composed == {k \in Slots : req[k].pc = "composed"}

\* C9 as stated: in every variant that formats its history, the composed text is the
\* system instruction, a newline, the rendered history and "User: <newMessage>".
C9_SystemLineAlwaysFirst ==
    \A k \in Composed :
        req[k].prompt = SystemOf(variant) \o "\n" \o ExpectedTurns(req[k].history, req[k].message)

\* C9: the composed text is the rendered history entries, one per line, then
\* "User: <newMessage>", with nothing between them when the history is empty; it is
\* preceded by the system message and a newline in the variants that declare systemMsg,
\* and by nothing in the others.
C9_ComposedText ==
    \A k \in Composed :
        req[k].prompt =
            (IF variant \in SystemLineVariants THEN systemMsg(variant) \o "\n" ELSE "")
                \o ExpectedTurns(req[k].history, req[k].message)

\* C9 witness: the history [{user, "hi"}, {assistant, "hello"}] and the message "bye"
\* composed by sst-server.js.
C9_Witness ==
    /\ variant = "sst_fn"
    /\ req[1].pc = "composed"
    /\ req[1].history = <<[role |-> "user", content |-> "hi"],
                          [role |-> "assistant", content |-> "hello"]>>
    /\ req[1].message = "bye"
    /\ req[1].prompt = systemMsg("sst_fn") \o "\nUser: hi\nAssistant: hello\nUser: bye"

\* The history query of request k has answered in this step.
Fetched(k) == req[k].pc = "fetch" /\ req'[k].pc = "generate"

CountRole(s, role) ==
    Cardinality({i \in 1..Len(SessionRows(s)) : SessionRows(s)[i].role = role})

\* C11: in every state the table is a sequence of adjacent pairs, a user row and then
\* an assistant row of the same session, so no call has one of its rows without the
\* other, and each session has as many user rows as assistant rows.
C11_RowsInAdjacentPairs ==
    /\ Len(store) % 2 = 0
    /\ \A i \in 1..Len(store) :
          i % 2 = 1 =>
            /\ store[i].role = "user"
            /\ store[i + 1].role = "assistant"
            /\ store[i + 1].session_id = store[i].session_id
    /\ \A s \in Sessions : CountRole(s, "user") = CountRole(s, "assistant")

\* C11 witness: the pairs of two sessions lie one after the other while two further
\* inserts, one per session, are awaited.
C11_Witness ==
    /\ Len(store) >= 4
    /\ store[1].session_id # store[3].session_id
    /\ \A k \in Slots : req[k].pc = "insert"
    /\ req[1].sessionId # req[2].sessionId

\* C12: a request whose generation returned a reply and whose insert failed is
\* answered with the single response 500 carrying the insert error's message; the
\* body holds no reply and no success response is sent.
C12_InsertFailureIs500 ==
    (HasEnded /\ ended.thrown = DownstreamError("insert"))
    => /\ ended.reply \in Replies
       /\ ended.resp = <<[status |-> 500, body |-> [error |-> DownstreamError("insert")]]>>

\* C12 witness: the request got the reply "hello", its insert failed, it was answered
\* 500 and its session has no row.
C12_Witness ==
    /\ HasEnded
    /\ ended.reply = "hello"
    /\ ended.calls = <<"setup", "agent", "fetch", "generate", "insert">>
    /\ ended.thrown = DownstreamError("insert")
    /\ ended.resp[1].status = 500
    /\ SessionRows(ended.sessionId) = <<>>

\* C13 as stated: with a required credential missing the process does not serve: no
\* request is accepted, none is in a handler, none is answered.
C13_NothingServedWithoutCredentials ==
    ~envOk => (InFlight = {} /\ ~HasEnded)

\* The Express servers that check their environment when the module loads.
CheckedAtLoad == {"sst_express", "eng_express", "eng_server", "server"}

\* C13: with a required credential missing, an Express server that checks its
\* environment at load is not running and no request is ever received by it; an
\* Appwrite function runs its check at the start of every invocation and answers each
\* request 500 "Missing required environment variables", before validation and with
\* no downstream call.
C13_MissingCredentials ==
    ~envOk =>
        /\ variant \in CheckedAtLoad =>
              ~alive /\ InFlight = {} /\ ~HasEnded /\ store = <<>> /\ other = NoEvent
        /\ variant \in FunctionVariants =>
              /\ InFlight = {}
              /\ store = <<>>
              /\ HasEnded =>
                    /\ ended.resp =
                          <<[status |-> 500,
                             body |-> [error |-> "Missing required environment variables"]]>>
                    /\ ended.calls = <<>>

\* C13 witness: a function without its credentials answered 500 to a request with an
\* empty message.
C13_Witness ==
    /\ ~envOk
    /\ variant \in FunctionVariants
    /\ HasEnded
    /\ ended.message = ""
    /\ ended.resp[1].status = 500

\* C14: whatever the body of a request, its handler ends with a response sent and
\* the process still serving.
C14_EveryBodyAnsweredProcessUp ==
    HasEnded => (ended.resp # <<>> /\ alive)

RECURSIVE SeparatedText(_, _)
\* Passage texts with the separator between consecutive ones, built from the end.
SeparatedText(texts, sep) ==
    IF texts = <<>> THEN ""
    ELSE IF Len(texts) = 1 THEN texts[1]
    ELSE SeparatedText(SubSeq(texts, 1, Len(texts) - 1), sep) \o sep \o texts[Len(texts)]

HealthAnswered == other'.kind = "health"

\* The health response is 200 {status: "healthy"}; the map, the table, the requests
\* in flight and the process are as before.
HealthTouchesNothing ==
    /\ other'.resp = <<[status |-> 200, body |-> [status |-> "healthy"]]>>
    /\ UNCHANGED <<chatHistory, store, req, alive>>

\* C16: where /health is registered, in every state of a running server a GET /health
\* can be answered, and the step that answers it sends 200 {status: "healthy"} and
\* leaves the history map, the table and the requests in flight as they are.
C16_HealthAlwaysAnswers ==
    /\ []((alive /\ variant \in HealthVariants) => ENABLED Health)
    /\ [][HealthAnswered => HealthTouchesNothing]_vars

\* C16 witness: /health answered while two requests of one user are in flight, in a
\* run with further irregular events, the user's list holding four entries or more.
C16_Witness ==
    /\ other.kind = "health"
    /\ irregular >= 2
    /\ \A k \in Slots : req[k].pc = "generate" /\ req[k].sessionId = "u1"
    /\ Len(chatHistory["u1"]) >= 4

\* The place of a downstream call in the handler.
CallRank(name) ==
    CASE name = "setup" -> 1 [] name = "agent" -> 2 [] name = "fetch" -> 3
      [] name = "generate" -> 4 [] name = "insert" -> 5 [] OTHER -> 0

\* The calls of one request were issued one at a time in handler order, none twice,
\* generation only after the history fetch and the insert only after generation.
InHandlerOrder(v, calls) ==
    /\ \A i, j \in 1..Len(calls) : i < j => CallRank(calls[i]) < CallRank(calls[j])
    /\ \A i \in 1..Len(calls) : CallRank(calls[i]) > 0
    /\ \A i \in 1..Len(calls) :
          /\ calls[i] = "insert" => (i > 1 /\ calls[i - 1] = "generate")
          /\ (calls[i] = "generate" /\ v \in StatelessVariants) =>
                (i > 1 /\ calls[i - 1] = "fetch")

\* C17: the downstream calls of a request are issued one after another in the order
\* history fetch, generation, insert, each at most once; a request in flight waits
\* for exactly one call, the last it issued; a request that failed issued nothing
\* after the call that failed.
C17_OneCallAtATimeInOrder ==
    /\ \A k \in InFlight :
          /\ InHandlerOrder(variant, req[k].calls)
          /\ req[k].calls # <<>>
          /\ req[k].pc = (IF req[k].pc = "inserted" THEN "inserted"
                          ELSE req[k].calls[Len(req[k].calls)])
          /\ req[k].pc = "inserted" => req[k].calls[Len(req[k].calls)] = "insert"
    /\ HasEnded =>
          /\ InHandlerOrder(variant, ended.calls)
          /\ ended.thrown \in DownstreamErrors =>
                ended.thrown = DownstreamError(ended.calls[Len(ended.calls)])

\* C17 witness: a request answered 200 after its five calls, the only one of at least
\* three accepted requests to have written rows.
C17_Witness ==
    /\ HasEnded
    /\ ended.calls = <<"setup", "agent", "fetch", "generate", "insert">>
    /\ ended.resp[1].status = 200
    /\ okCount[ended.sessionId] = 1
    /\ ncalls >= 3
    /\ Len(store) = 2

\* The list of user u before the step (empty when the Map has no such key yet).
ListBefore(u) == IF u \in DOMAIN chatHistory THEN chatHistory[u] ELSE <<>>

\* In this step the list of user u got exactly one entry at its end, the next in push
\* order, and was cut to its last MAX_HISTORY_LENGTH entries.
OnePush(u) ==
    LET e == chatHistory'[u][Len(chatHistory'[u])]
    IN  /\ chatHistory'[u] # <<>>
        /\ chatHistory'[u] = LastN(Append(ListBefore(u), e), 20)
        /\ e.seq = npushed[u] + 1
        /\ npushed'[u] = npushed[u] + 1
        /\ e.role = "user" =>
              \E k \in Slots : /\ req[k].pc = "idle" /\ req'[k].pc = "generate"
                                /\ req'[k].sessionId = u /\ req'[k].message = e.content
        /\ e.role = "assistant" =>
              /\ ended'.pc = "done" /\ ended'.sessionId = u /\ ended'.reply = e.content
              /\ ended'.resp[1].status = 200
        /\ e.role \in {"user", "assistant"}

\* Every list is as it was or got one push; no key is dropped; an arriving request
\* and a request answered 200 push once, a request answered 500 pushes nothing.
PushesOnly ==
    /\ \A u \in DOMAIN chatHistory' :
          \/ /\ u \in DOMAIN chatHistory
             /\ chatHistory'[u] = chatHistory[u]
             /\ npushed'[u] = npushed[u]
          \/ OnePush(u)
    /\ DOMAIN chatHistory \subseteq DOMAIN chatHistory'
    /\ \A k \in Slots :
          (req[k].pc = "idle" /\ req'[k].pc = "generate")
             => npushed'[req'[k].sessionId] = npushed[req'[k].sessionId] + 1
    /\ (ended'.pc = "done" /\ ended'.resp[1].status = 200)
          => npushed'[ended'.sessionId] = npushed[ended'.sessionId] + 1
    /\ (ended'.pc = "done" /\ ended'.resp[1].status = 500)
          => (chatHistory' = chatHistory /\ npushed' = npushed)

\* C18: in the stateful variants that prune, under any interleaving every step leaves
\* each user's list as it was or appends exactly one entry to it (then trimmed from
\* the oldest end to 20): the message of the request that arrived or the reply of the
\* request answered 200. Every arriving request and every 200 pushes once, a failed
\* generation pushes nothing; nothing is lost, duplicated or overwritten.
C18_SharedHistoryAppendOnly == [][(variant \in CappedVariants) => PushesOnly]_vars

\* C18 witness: two requests of one user overlap, their messages lie one after the
\* other at the end of the list, and older entries have been trimmed.
C18_Witness ==
    /\ variant \in CappedVariants
    /\ \A k \in Slots : req[k].pc = "generate" /\ req[k].sessionId = "u1"
    /\ npushed["u1"] > 20
    /\ Len(chatHistory["u1"]) = 20
    /\ chatHistory["u1"][19].role = "user"
    /\ chatHistory["u1"][20].role = "user"

\* C19: in the variant whose cap is commented "last 10 message pairs", with requests
\* of named users made one after the other and all answered, a list never begins with
\* an assistant entry.
C19_ListBeginsWithUserEntry ==
    (variant = "capped_lc" /\ irregular = 0) =>
        \A u \in DOMAIN chatHistory :
            chatHistory[u] # <<>> => chatHistory[u][1].role = "user"

\* A step deletes no key of the map; a key it adds is the user of the request that
\* arrives in it, with that one message as its list; a timer tick changes nothing.
KeysOnlyAdded ==
    /\ DOMAIN chatHistory \subseteq DOMAIN chatHistory'
    /\ \A u \in DOMAIN chatHistory' \ DOMAIN chatHistory :
          /\ \E k \in Slots : req[k].pc = "idle" /\ req'[k].sessionId = u
          /\ Len(chatHistory'[u]) = 1
          /\ chatHistory'[u][1].role = "user"
    /\ other'.kind = "tick" => chatHistory' = chatHistory

\* C20: the key set of the history map only grows; a key appears in the step in which
\* the first request of its user arrives (its list then holds that one message); a
\* user is in the map exactly when a request of theirs has arrived; a tick of the
\* hourly timer leaves the map unchanged.
C20_SessionsNeverDeleted ==
    /\ [](\A u \in Users : (u \in DOMAIN chatHistory) <=> (npushed[u] > 0))
    /\ [][KeysOnlyAdded]_vars

\* C20 witness: the timer ticked with the lists of two users in the map, one of them
\* at the cap, and no request in flight.
C20_Witness ==
    /\ variant = "capped_lc"
    /\ other.kind = "tick"
    /\ DOMAIN chatHistory = {"default", "u1"}
    /\ Len(chatHistory["u1"]) = 20
    /\ InFlight = {}

\* The failures that come before a reply exists.
EarlyErrors == {DownstreamError(name) : name \in {"setup", "agent", "fetch", "generate"}}

\* A step that changes the table is the insert of a request that holds a reply; a step
\* in which a request fails before a reply exists leaves the table as it is.
OnlyRepliedCallsWrite ==
    /\ store' # store =>
          \E k \in Slots : /\ req[k].pc = "insert"
                            /\ req'[k].pc = "inserted"
                            /\ req[k].reply \in Replies
                            /\ req[k].calls[Len(req[k].calls) - 1] = "generate"
    /\ ended'.thrown \in EarlyErrors => store' = store

\* C21: in the stateless variants a request that failed during retrieval setup,
\* history fetch or generation never had a reply and never issued an insert, the step
\* in which it fails writes nothing, and every write to the table is the insert of a
\* request whose generation returned a reply.
C21_EarlyFailureWritesNoRow ==
    /\ []((HasEnded /\ ended.thrown \in EarlyErrors) =>
            /\ ended.reply = Undefined
            /\ \A i \in 1..Len(ended.calls) : ended.calls[i] # "insert")
    /\ [][OnlyRepliedCallsWrite]_vars

\* C21 witness: a request failed at generation in a session whose one earlier call
\* was answered 200: the session still has the two rows of that call.
C21_Witness ==
    /\ HasEnded
    /\ ended.thrown = DownstreamError("generate")
    /\ ended.sessionId \in Sessions
    /\ okCount[ended.sessionId] = 1
    /\ Len(SessionRows(ended.sessionId)) = 2
    /\ InFlight = {}

\* C22: in the variants that authenticate, with the credentials set, a request without
\* message or sessionId and without the right token is answered 400; and a 401 is
\* only ever the answer to a request with a non-empty message and sessionId.
C22_ValidationBeforeAuthentication ==
    HasEnded =>
        /\ (variant \in AuthVariants /\ envOk /\ ~WellFormed(ended)
                /\ ended.authToken # AUTH_SECRET)
             => (Len(ended.resp) = 1 /\ ended.resp[1].status = 400)
        /\ (ended.resp # <<>> /\ ended.resp[1].status = 401) => WellFormed(ended)

\* C22 witness: a request with an empty message and a wrong token was answered 400.
C22_Witness ==
    /\ HasEnded
    /\ variant \in AuthVariants
    /\ ended.message = ""
    /\ ended.sessionId = "s1"
    /\ ended.authToken = "wrong"
    /\ ended.resp[1].status = 400

\* The rows of session s in a table, in table order.
RowsOf(table, s) == SelectSeq(table, LAMBDA row : row.session_id = s)

\* The list of user id u in a history map (none and empty are told apart).
ListOf(map, u) == IF u \in DOMAIN map THEN <<map[u]>> ELSE <<>>

\* The ids of the requests whose handler runs in this step: the request that arrives,
\* the request that is resumed, the request that ends.
ActingIds ==
    {req'[k].sessionId : k \in {j \in Slots : req[j].pc = "idle" /\ req'[j].pc # "idle"}}
        \cup {req[k].sessionId : k \in {j \in Slots : req[j].pc # "idle" /\ req'[j] # req[j]}}
        \cup (IF ended'.pc # "idle" THEN {ended'.sessionId} ELSE {})

\* The {role, content} view of the entries 1..n of a list.
ViewOf(list, n) ==
    [i \in 1..n |-> [role |-> list[i].role, content |-> list[i].content]]

\* A step changes the rows and the list of the acting request's id only, and the
\* history a request is given is drawn from the rows, or the list, of its own id.
OwnSessionOnly ==
    /\ store' # store =>
          \A s \in Sessions : RowsOf(store', s) # RowsOf(store, s) => s \in ActingIds
    /\ chatHistory' # chatHistory =>
          \A u \in Users : ListOf(chatHistory', u) # ListOf(chatHistory, u) => u \in ActingIds
    /\ \A k \in Slots :
          Fetched(k) =>
            LET own == RowsOf(store, req[k].sessionId)
                n == Min(Len(own), HistoryLimit)
            IN  req'[k].history = ViewOf(SubSeq(own, Len(own) - n + 1, Len(own)), n)
    /\ \A k \in Slots :
          (variant \in StatefulVariants /\ req[k].pc = "idle" /\ req'[k].pc # "idle") =>
            LET own == chatHistory'[req'[k].sessionId]
            IN  req'[k].history =
                    ViewOf(own, IF variant = "capped_fmt" THEN Len(own) - 1 ELSE Len(own))

\* C23: every step changes only the stored rows and the in-memory list of the id of
\* the request that acts in it, the rows and lists of every other id staying as they
\* are, and the history given to a request is made of the rows (stateless variants)
\* or of the list (stateful variants) of its own id alone.
C23_SessionsIsolated == [][OwnSessionOnly]_vars

\* C23 witness: a request of session s2 is generating with an empty history while the
\* table holds a turn of session s1 and a request of s1 is in flight beside it.
C23_Witness ==
    /\ variant \in StatelessVariants
    /\ Len(RowsOf(store, "s1")) = 2
    /\ RowsOf(store, "s2") = <<>>
    /\ \E k, j \in Slots :
          /\ req[k].pc = "generate"
          /\ req[k].sessionId = "s2"
          /\ req[k].history = <<>>
          /\ req[j].pc # "idle"
          /\ req[j].sessionId = "s1"

\* A request of a stateful variant arrives in slot k in this step.
ArrivesStateful(k) ==
    variant \in StatefulVariants /\ req[k].pc = "idle" /\ req'[k].pc = "generate"

\* A request of a stateful variant is answered 500 in this step.
FailsStateful ==
    /\ variant \in StatefulVariants
    /\ ended'.pc # "idle"
    /\ ended'.resp # <<>>
    /\ ended'.resp[1].status = 500

\* The arriving request's message is pushed at the end of its user's list, and the
\* entry right before it in the agent's context is the entry the list ended with;
\* the step that answers 500 pushes nothing and removes nothing; and no step takes
\* the last entry of a list away.
MessageStaysAfterFailure ==
    /\ \A k \in Slots :
          ArrivesStateful(k) =>
            LET u == req'[k].sessionId
                h == chatHistory'[u]
                ctx == req'[k].history
                at == IF variant = "capped_fmt" THEN Len(ctx) ELSE Len(ctx) - 1
            IN  /\ h[Len(h)] = [role |-> "user", content |-> req'[k].message,
                                seq |-> npushed'[u]]
                /\ (u \in DOMAIN chatHistory /\ chatHistory[u] # <<>>) =>
                      /\ at >= 1
                      /\ ctx[at].role = chatHistory[u][Len(chatHistory[u])].role
                      /\ ctx[at].content = chatHistory[u][Len(chatHistory[u])].content
    /\ FailsStateful => (chatHistory' = chatHistory /\ npushed' = npushed)
    /\ \A u \in DOMAIN chatHistory :
          chatHistory[u] # <<>> =>
            /\ u \in DOMAIN chatHistory'
            /\ \E j \in 1..Len(chatHistory'[u]) :
                  chatHistory'[u][j] = chatHistory[u][Len(chatHistory[u])]

\* C24: in the stateful variants a request's message is pushed to its user's list when
\* the request arrives, the step in which its generation fails (500) leaves every
\* list as it is, no assistant entry pushed and the message not taken back, and the
\* next request of that user has the message in its context right before its own.
C24_NoRollbackOnFailure == [][MessageStaysAfterFailure]_vars

\* C24 witness: after one failed request of u1, with no other irregular event in the
\* run, the next request of u1 is generating: the list ends with two user entries,
\* and the context of the request holds the message of the failed one.
C24_Witness ==
    /\ variant \in StatefulVariants
    /\ irregular = 1
    /\ \E k \in Slots :
          /\ req[k].pc = "generate"
          /\ req[k].sessionId = "u1"
          /\ InFlight = {k}
          /\ LET h == chatHistory["u1"]
                 ctx == req[k].history
                 at == IF variant = "capped_fmt" THEN Len(ctx) ELSE Len(ctx) - 1
             IN  /\ Len(h) >= 4
                 /\ h[Len(h)].role = "user"
                 /\ h[Len(h) - 1].role = "user"
                 /\ h[Len(h) - 2].role = "assistant"
                 /\ ctx[at].role = "user"

\* Request k holds the history its query answered with.
HoldsSnapshot(k) == req[k].pc \in {"generate", "insert", "inserted"}

\* The history a query answers with is made of rows the table holds at that moment,
\* the request having issued no insert yet; from then on the request's history and
\* prompt stay as they are, whatever is written meanwhile; and the request's own two
\* rows are written after that, on top of the rows of its session.
SnapshotAtFetch ==
    \A k \in Slots :
        /\ Fetched(k) =>
              LET own == RowsOf(store, req[k].sessionId)
                  h == req'[k].history
              IN  /\ store' = store
                  /\ Len(h) <= Len(own)
                  /\ \A i \in 1..Len(h) :
                        /\ h[i].role = own[Len(own) - Len(h) + i].role
                        /\ h[i].content = own[Len(own) - Len(h) + i].content
                  /\ \A i \in 1..Len(req'[k].calls) : req'[k].calls[i] # "insert"
        /\ (variant \in StatelessVariants /\ HoldsSnapshot(k)) =>
              LET after == IF req'[k].pc = "idle" THEN ended' ELSE req'[k]
              IN  /\ after.history = req[k].history
                  /\ after.prompt = req[k].prompt
        /\ (req[k].pc = "insert" /\ req'[k].pc = "inserted") =>
              LET s == req[k].sessionId
              IN  Len(RowsOf(store', s)) = Len(RowsOf(store, s)) + 2

\* C25: in the stateless variants the history of a request is made only of rows the
\* table held when its history query answered, before the request issued its own
\* insert; the history and the prompt composed from it never change afterwards, so
\* turns written meanwhile by overlapping requests are not in it, and each request's
\* own two rows are still written to the table.
C25_PromptFromSnapshot == [][SnapshotAtFetch]_vars

\* C25 witness: two requests of session s1 overlapped, both composed their prompt from
\* the empty table, and the inserts of both have been committed: the session has four
\* rows, and neither history has the other's turn.
C25_Witness ==
    /\ variant \in StatelessVariants
    /\ \A k \in Slots :
          /\ req[k].pc = "inserted"
          /\ req[k].sessionId = "s1"
          /\ req[k].history = <<>>
    /\ Len(RowsOf(store, "s1")) = 4

====
